---- MODULE Spec2Model ----
(***************************************************************************)
(* Model of the makeline order service (src/main.go): process start-up     *)
(* (main, initDatabase, getEnvVar) and the four routed request handlers    *)
(* (fetchOrders, listOrdersByStatus, getOrder, updateOrder).               *)
(*                                                                         *)
(* Strings that the code parses or formats (order ids, the status query    *)
(* parameter) are sequences of one-character strings, so strconv.Atoi and  *)
(* strconv.FormatInt are modelled by what they do to the characters.       *)
(* Configuration values are opaque and are plain TLA+ strings; the empty   *)
(* string is an unset (or empty) environment variable, which os.Getenv     *)
(* does not tell apart.                                                    *)
(***************************************************************************)
EXTENDS Integers, Sequences, FiniteSets, TLC

VARIABLES
    env,        \* the process environment: variable name -> value
    pc,         \* position of main: "start", "inited", "serving", "exited"
    ctorCalls,  \* backend constructors invoked so far, with their arguments
    initResult, \* what initDatabase returned: [svc, err]
    routes,     \* routes registered on the router
    store,      \* the orders the repository holds
    req,        \* the request being answered
    calls,      \* queue and repository calls made while answering req
    resp,       \* the response to req
    gevCall,    \* arguments of the last direct getEnvVar call
    gevResult   \* its outcome

vars == <<env, pc, ctorCalls, initResult, routes, store, req, calls, resp,
          gevCall, gevResult>>

startVars == <<pc, ctorCalls, initResult, routes>>
httpVars == <<store, req, calls, resp>>
gevVars == <<gevCall, gevResult>>

----------------------------------------------------------------------------
(* Bounds.  *)

\* longest id / status-parameter string a request carries
MaxStrLen == 2
\* most orders one queue read returns
MaxBatch == 1
\* most fallback names one getEnvVar call is given
MaxFallbacks == 2

----------------------------------------------------------------------------
(* strconv *)

Digits == {"0", "1", "2", "3", "4", "5", "6", "7", "8", "9"}

DigitVal(c) ==
    CASE c = "0" -> 0 [] c = "1" -> 1 [] c = "2" -> 2 [] c = "3" -> 3
      [] c = "4" -> 4 [] c = "5" -> 5 [] c = "6" -> 6 [] c = "7" -> 7
      [] c = "8" -> 8 [] c = "9" -> 9

DigitChar(d) ==
    CASE d = 0 -> "0" [] d = 1 -> "1" [] d = 2 -> "2" [] d = 3 -> "3"
      [] d = 4 -> "4" [] d = 5 -> "5" [] d = 6 -> "6" [] d = 7 -> "7"
      [] d = 8 -> "8" [] d = 9 -> "9"

\* n = n*10 + int(ch) over the characters of s, starting from acc
RECURSIVE AccDigits(_, _)
AccDigits(s, acc) ==
    IF s = <<>> THEN acc
    ELSE AccDigits(Tail(s), acc * 10 + DigitVal(Head(s)))

\* strconv.Atoi: an optional sign, then at least one digit and nothing but
\* digits.  The range error needs 19 characters or more, beyond every string a
\* request of this model carries; it gives err like the syntax error.
Atoi(s) ==
    IF s = <<>> THEN [err |-> TRUE, n |-> 0]
    ELSE LET signed == Head(s) \in {"-", "+"}
             body == IF signed THEN Tail(s) ELSE s
         IN  IF body = <<>> \/ \E i \in 1..Len(body) : body[i] \notin Digits
             THEN [err |-> TRUE, n |-> 0]
             ELSE [err |-> FALSE,
                   n |-> IF Head(s) = "-" THEN 0 - AccDigits(body, 0)
                         ELSE AccDigits(body, 0)]

\* the decimal digits of n >= 0, most significant first
RECURSIVE FormatUint(_)
FormatUint(n) ==
    IF n < 10 THEN <<DigitChar(n)>>
    ELSE Append(FormatUint(n \div 10), DigitChar(n % 10))

\* strconv.FormatInt(n, 10)
FormatInt(n) ==
    IF n < 0 THEN <<"-">> \o FormatUint(0 - n) ELSE FormatUint(n)

----------------------------------------------------------------------------
(* Configuration *)

AZURE_COSMOS_DB_SQL_API == "cosmosdbsql"

\* getEnvVar's loop over the fallback names: each one overwrites value, and
\* the loop stops at the first fallback that is empty
RECURSIVE FallbackLoop(_, _, _)
FallbackLoop(e, value, fallbackVarNames) ==
    IF fallbackVarNames = <<>> THEN value
    ELSE LET v == e[Head(fallbackVarNames)]
         IN  IF v = "" THEN v
             ELSE FallbackLoop(e, v, Tail(fallbackVarNames))

\* getEnvVar without its exit: an empty value is returned like any other
getEnvVarNoExit(e, varName, fallbackVarNames) ==
    [exit |-> FALSE,
     value |-> IF e[varName] = ""
               THEN FallbackLoop(e, e[varName], fallbackVarNames)
               ELSE e[varName]]

\* getEnvVar: the value, or exit when it ends up empty
getEnvVar(e, varName, fallbackVarNames) ==
    LET value == IF e[varName] = ""
                 THEN FallbackLoop(e, e[varName], fallbackVarNames)
                 ELSE e[varName]
    IN  [exit |-> value = "", value |-> value]

----------------------------------------------------------------------------
(* Start-up: main and initDatabase *)

\* a required or optional setting is unset ("") or set; a set value is written
\* as the name of its variable, so that the settings stay distinguishable
\* among a constructor's arguments
Setting(name) == {"", name}

\* the environments the process may be started in
Environments ==
    [ORDER_DB_API : {"", AZURE_COSMOS_DB_SQL_API, "mongodb"},
     USE_WORKLOAD_IDENTITY_AUTH : {"", "true", "false", "1"},
     AZURE_COSMOS_RESOURCEENDPOINT : Setting("AZURE_COSMOS_RESOURCEENDPOINT"),
     ORDER_DB_URI : Setting("ORDER_DB_URI"),
     ORDER_DB_NAME : Setting("ORDER_DB_NAME"),
     ORDER_DB_CONTAINER_NAME : Setting("ORDER_DB_CONTAINER_NAME"),
     ORDER_DB_PARTITION_KEY : Setting("ORDER_DB_PARTITION_KEY"),
     ORDER_DB_PARTITION_VALUE : Setting("ORDER_DB_PARTITION_VALUE"),
     ORDER_DB_PASSWORD : Setting("ORDER_DB_PASSWORD"),
     ORDER_DB_COLLECTION_NAME : Setting("ORDER_DB_COLLECTION_NAME"),
     ORDER_DB_USERNAME : Setting("ORDER_DB_USERNAME")]

NilService == [nil |-> TRUE, repo |-> ""]

\* NewOrderService: a service holding the repository it is given
NewOrderService(repo) == [nil |-> FALSE, repo |-> repo]

NotReturned == [returned |-> FALSE, svc |-> NilService, err |-> FALSE]

\* what a run of initDatabase amounts to: the process exited inside it, or it
\* called the constructors in ctors and returned (svc, err)
InitExit == [exit |-> TRUE, ctors |-> <<>>, ret |-> NotReturned]

\* a constructor was called with args and failed (ctorErr) or gave a repository
Construct(ctor, args, ctorErr) ==
    [exit |-> FALSE,
     ctors |-> <<[ctor |-> ctor, args |-> args]>>,
     ret |-> IF ctorErr
             THEN [returned |-> TRUE, svc |-> NilService, err |-> TRUE]
             ELSE [returned |-> TRUE, svc |-> NewOrderService(ctor),
                   err |-> FALSE]]

\* the auth flag read as set-or-unset instead of compared with "true"
useWorkloadIdentityAuthIfSet(e) == e["USE_WORKLOAD_IDENTITY_AUTH"] # ""

\* the auth flag, "false" when unset, selects workload identity when "true"
useWorkloadIdentityAuth(e) ==
    LET flag == IF e["USE_WORKLOAD_IDENTITY_AUTH"] = "" THEN "false"
                ELSE e["USE_WORKLOAD_IDENTITY_AUTH"]
    IN  flag = "true"

\* the partitioned branch of initDatabase
initCosmos(e, dbURI, dbName, ctorErr) ==
    LET containerName == getEnvVar(e, "ORDER_DB_CONTAINER_NAME", <<>>)
        dbPartitionKey == getEnvVar(e, "ORDER_DB_PARTITION_KEY", <<>>)
        dbPartitionValue == getEnvVar(e, "ORDER_DB_PARTITION_VALUE", <<>>)
    IN  IF containerName.exit \/ dbPartitionKey.exit \/ dbPartitionValue.exit
        THEN InitExit
        ELSE IF useWorkloadIdentityAuth(e)
        THEN Construct("NewCosmosDBOrderRepoWithManagedIdentity",
                       <<dbURI, dbName, containerName.value,
                         dbPartitionKey.value, dbPartitionValue.value>>,
                       ctorErr)
        ELSE Construct("NewCosmosDBOrderRepo",
                       <<dbURI, dbName, containerName.value,
                         e["ORDER_DB_PASSWORD"],
                         dbPartitionKey.value, dbPartitionValue.value>>,
                       ctorErr)

\* the default branch of initDatabase
initMongo(e, dbURI, dbName, ctorErr) ==
    LET collectionName == getEnvVar(e, "ORDER_DB_COLLECTION_NAME", <<>>)
    IN  IF collectionName.exit THEN InitExit
        ELSE Construct("NewMongoDBOrderRepo",
                       <<dbURI, dbName, collectionName.value,
                         e["ORDER_DB_USERNAME"], e["ORDER_DB_PASSWORD"]>>,
                       ctorErr)

initDatabase(e, apiType, ctorErr) ==
    LET dbURI == getEnvVar(e, "AZURE_COSMOS_RESOURCEENDPOINT",
                           <<"ORDER_DB_URI">>)
        dbName == getEnvVar(e, "ORDER_DB_NAME", <<>>)
    IN  IF dbURI.exit \/ dbName.exit THEN InitExit
        ELSE IF apiType = AZURE_COSMOS_DB_SQL_API
        THEN initCosmos(e, dbURI.value, dbName.value, ctorErr)
        ELSE initMongo(e, dbURI.value, dbName.value, ctorErr)

Routes == {"GET /order/fetch", "GET /order", "GET /order/:id", "PUT /order",
           "GET /health"}

\* main going on without looking at err
initFailedIgnored(ret) == FALSE

\* main's test of what initDatabase returned: err != nil ends the process
initFailed(ret) == ret.err

\* main up to the return of initDatabase; the constructor's outcome is the
\* backend's to decide
MainInit ==
    /\ pc = "start"
    /\ \E ctorErr \in BOOLEAN :
         LET r == initDatabase(env, env["ORDER_DB_API"], ctorErr)
         IN  /\ pc' = IF r.exit THEN "exited" ELSE "inited"
             /\ ctorCalls' = ctorCalls \o r.ctors
             /\ initResult' = r.ret
    /\ UNCHANGED <<env, routes, httpVars, gevVars>>

\* the rest of main: exit on an error, else register the routes and serve
MainServe ==
    /\ pc = "inited"
    /\ IF initFailed(initResult)
       THEN pc' = "exited" /\ routes' = routes
       ELSE pc' = "serving" /\ routes' = Routes
    /\ UNCHANGED <<env, ctorCalls, initResult, httpVars, gevVars>>

----------------------------------------------------------------------------
(* Orders, the queue and the repository *)

StatusOK == 200
StatusAccepted == 202
StatusBadRequest == 400
StatusInternalServerError == 500

Pending == 0

\* characters of the strings a request carries
Alphabet == {"0", "1", "-", "a"}

Strings(n) == UNION {[1..k -> Alphabet] : k \in 0..n}

\* the id and status strings a request may carry
RequestStrings == Strings(MaxStrLen)

\* the Status numbers a JSON body may carry
BodyStatuses == {-1, 1, 2, 3}

\* ids of the orders waiting in the queue, as the queue wrote them
QueueIds == {<<"1">>, <<"0", "1">>}

Order(id, customer, items, status) ==
    [OrderID |-> id, CustomerID |-> customer, Items |-> items,
     Status |-> status]

QueueOrders == {Order(id, "c1", "i1", Pending) : id \in QueueIds}

\* what one getOrdersFromQueue may return: an error, or a batch of new orders
QueueResults ==
    {[err |-> TRUE, orders |-> <<>>]} \cup
    {[err |-> FALSE, orders |-> b] :
        b \in UNION {[1..k -> QueueOrders] : k \in 0..MaxBatch}}

Call(op, id, status, orders, result) ==
    [op |-> op, id |-> id, status |-> status, orders |-> orders,
     result |-> result]

\* InsertOrders: adds the orders one by one; an order whose id is already
\* stored is skipped
RECURSIVE InsertOrders(_, _)
InsertOrders(st, orders) ==
    IF orders = <<>> THEN st
    ELSE LET o == Head(orders)
             known == \E x \in st : x.OrderID = o.OrderID
         IN  InsertOrders(IF known THEN st ELSE st \cup {o}, Tail(orders))

GetPendingOrders(st) == {o \in st : o.Status = Pending}

GetOrdersByStatus(st, status) == {o \in st : o.Status = status}

\* GetOrder: the stored order with this id, if there is one
GetOrder(st, id) == {o \in st : o.OrderID = id}

\* UpdateOrder: replaces the stored order that has the order's id
UpdateOrder(st, order) ==
    {IF o.OrderID = order.OrderID THEN order ELSE o : o \in st}

\* the outcome of a point operation: a backend fault, no such order, or done
PointResult(st, id, ioErr) ==
    IF ioErr THEN "ioerror"
    ELSE IF GetOrder(st, id) = {} THEN "notfound"
    ELSE "ok"

----------------------------------------------------------------------------
(* Request handlers.  Each gives the calls it made, the response and the   *)
(* store it leaves.                                                        *)

Handled(cs, status, body, st) ==
    [calls |-> cs, resp |-> [status |-> status, body |-> body], store |-> st]

\* the handlers' answer to any error of a repository or queue call
Failed(cs, st) == Handled(cs, StatusInternalServerError, {}, st)

\* the status check of listOrders, which has no range test
statusRejectedNoRange(a) == a.err

\* the status check of listOrdersByStatus on the parsed parameter
statusRejected(a) == a.err \/ a.n < 0 \/ a.n > 2

listOrdersByStatus(st, statusParam, ioErr) ==
    IF statusParam = <<>> THEN Handled(<<>>, StatusBadRequest, {}, st)
    ELSE LET a == Atoi(statusParam)
         IN  IF statusRejected(a)
             THEN Handled(<<>>, StatusBadRequest, {}, st)
             ELSE LET c == Call("GetOrdersByStatus", <<>>, a.n, <<>>,
                                IF ioErr THEN "ioerror" ELSE "ok")
                  IN  IF ioErr THEN Failed(<<c>>, st)
                      ELSE Handled(<<c>>, StatusOK,
                                   GetOrdersByStatus(st, a.n), st)

\* fetchOrders answering from the store without the GetPendingOrders call
fetchPendingNoCall(cs, st, pendErr) ==
    Handled(cs, StatusOK, GetPendingOrders(st), st)

\* fetchOrders after InsertOrders succeeded: read the pending orders
fetchPending(cs, st, pendErr) ==
    LET c == Call("GetPendingOrders", <<>>, Pending, <<>>,
                  IF pendErr THEN "ioerror" ELSE "ok")
    IN  IF pendErr THEN Failed(Append(cs, c), st)
        ELSE Handled(Append(cs, c), StatusOK, GetPendingOrders(st), st)

\* fetchOrders without the return after a failed InsertOrders
fetchInsertNoReturn(cs, st, orders, insErr, pendErr) ==
    LET c == Call("InsertOrders", <<>>, Pending, orders,
                  IF insErr THEN "ioerror" ELSE "ok")
    IN  fetchPending(Append(cs, c),
                     IF insErr THEN st ELSE InsertOrders(st, orders),
                     pendErr)

\* fetchOrders after the queue read succeeded: save the orders
fetchInsert(cs, st, orders, insErr, pendErr) ==
    LET c == Call("InsertOrders", <<>>, Pending, orders,
                  IF insErr THEN "ioerror" ELSE "ok")
    IN  IF insErr THEN Failed(Append(cs, c), st)
        ELSE fetchPending(Append(cs, c), InsertOrders(st, orders), pendErr)

fetchOrders(st, q, insErr, pendErr) ==
    LET c == Call("getOrdersFromQueue", <<>>, Pending, q.orders,
                  IF q.err THEN "ioerror" ELSE "ok")
    IN  IF q.err THEN Failed(<<c>>, st)
        ELSE fetchInsert(<<c>>, st, q.orders, insErr, pendErr)

getOrder(st, idParam, ioErr) ==
    LET a == Atoi(idParam)
    IN  IF a.err THEN Handled(<<>>, StatusBadRequest, {}, st)
        ELSE LET sanitizedOrderId == FormatInt(a.n)
                 res == PointResult(st, sanitizedOrderId, ioErr)
                 c == Call("GetOrder", sanitizedOrderId, Pending, <<>>, res)
             IN  IF res # "ok" THEN Failed(<<c>>, st)
                 ELSE Handled(<<c>>, StatusOK,
                              GetOrder(st, sanitizedOrderId), st)

\* body: [bindErr, order], what BindJSON makes of the request body
updateOrder(st, body, ioErr) ==
    IF body.bindErr THEN Failed(<<>>, st)
    ELSE LET order == body.order
             a == Atoi(order.OrderID)
         IN  IF a.err THEN Handled(<<>>, StatusBadRequest, {}, st)
             ELSE LET sanitizedOrder ==
                          Order(FormatInt(a.n), order.CustomerID,
                                order.Items, order.Status)
                      res == PointResult(st, sanitizedOrder.OrderID, ioErr)
                      c == Call("UpdateOrder", sanitizedOrder.OrderID,
                                sanitizedOrder.Status, <<sanitizedOrder>>,
                                res)
                  IN  IF res # "ok" THEN Failed(<<c>>, st)
                      ELSE Handled(<<c>>, StatusAccepted, {},
                                   UpdateOrder(st, sanitizedOrder))

NoOrder == Order(<<>>, "", "", Pending)

Request(route, param, body) ==
    [route |-> route, param |-> param, body |-> body]

NoBody == [bindErr |-> FALSE, order |-> NoOrder]

Bodies ==
    {[bindErr |-> TRUE, order |-> NoOrder]} \cup
    {[bindErr |-> FALSE, order |-> Order(id, c, "i2", s)] :
        id \in RequestStrings, c \in {"c2"}, s \in BodyStatuses}

\* the router answers a request on a registered route
Serve(r, h) ==
    /\ pc = "serving"
    /\ r.route \in routes
    /\ req' = r
    /\ calls' = h.calls
    /\ resp' = h.resp
    /\ store' = h.store
    /\ UNCHANGED <<env, startVars, gevVars>>

FetchOrders ==
    \E q \in QueueResults, insErr \in BOOLEAN, pendErr \in BOOLEAN :
        Serve(Request("GET /order/fetch", <<>>, NoBody),
              fetchOrders(store, q, insErr, pendErr))

ListOrdersByStatus ==
    \E statusParam \in RequestStrings, ioErr \in BOOLEAN :
        Serve(Request("GET /order", statusParam, NoBody),
              listOrdersByStatus(store, statusParam, ioErr))

\* the router hands getOrder a path segment, which is never empty
GetOrderById ==
    \E idParam \in RequestStrings \ {<<>>}, ioErr \in BOOLEAN :
        Serve(Request("GET /order/:id", idParam, NoBody),
              getOrder(store, idParam, ioErr))

PutOrder ==
    \E body \in Bodies, ioErr \in BOOLEAN :
        Serve(Request("PUT /order", <<>>, body),
              updateOrder(store, body, ioErr))

----------------------------------------------------------------------------
(* Specifications *)

NoRequest == Request("", <<>>, NoBody)
NoResponse == [status |-> 0, body |-> {}]
NoGev == [varName |-> "", fallbackVarNames |-> <<>>]
NoGevResult == [exit |-> FALSE, value |-> ""]

IdleHttp ==
    /\ store = {}
    /\ req = NoRequest
    /\ calls = <<>>
    /\ resp = NoResponse

IdleGev ==
    /\ gevCall = NoGev
    /\ gevResult = NoGevResult

\* the process starts in any environment
StartInit ==
    /\ env \in Environments
    /\ pc = "start"
    /\ ctorCalls = <<>>
    /\ initResult = NotReturned
    /\ routes = {}
    /\ IdleHttp
    /\ IdleGev

StartNext == MainInit \/ MainServe

StartSpec == StartInit /\ [][StartNext]_vars

\* a complete document-store configuration
ServingEnv ==
    [ORDER_DB_API |-> "",
     USE_WORKLOAD_IDENTITY_AUTH |-> "",
     AZURE_COSMOS_RESOURCEENDPOINT |-> "",
     ORDER_DB_URI |-> "ORDER_DB_URI",
     ORDER_DB_NAME |-> "ORDER_DB_NAME",
     ORDER_DB_CONTAINER_NAME |-> "",
     ORDER_DB_PARTITION_KEY |-> "",
     ORDER_DB_PARTITION_VALUE |-> "",
     ORDER_DB_PASSWORD |-> "ORDER_DB_PASSWORD",
     ORDER_DB_COLLECTION_NAME |-> "ORDER_DB_COLLECTION_NAME",
     ORDER_DB_USERNAME |-> "ORDER_DB_USERNAME"]

\* the process once main has started the router, over an empty store
Init ==
    /\ env = ServingEnv
    /\ pc = "serving"
    /\ ctorCalls = initDatabase(env, env["ORDER_DB_API"], FALSE).ctors
    /\ initResult = initDatabase(env, env["ORDER_DB_API"], FALSE).ret
    /\ routes = Routes
    /\ IdleHttp
    /\ IdleGev

Next == FetchOrders \/ ListOrdersByStatus \/ GetOrderById \/ PutOrder

Spec == Init /\ [][Next]_vars

----------------------------------------------------------------------------
(* getEnvVar on its own, with any list of fallback names *)

GevNames == {"AZURE_COSMOS_RESOURCEENDPOINT", "ORDER_DB_URI", "ORDER_DB_NAME"}

GevEnvironments ==
    [AZURE_COSMOS_RESOURCEENDPOINT : Setting("AZURE_COSMOS_RESOURCEENDPOINT"),
     ORDER_DB_URI : Setting("ORDER_DB_URI"),
     ORDER_DB_NAME : Setting("ORDER_DB_NAME")]

FallbackLists == UNION {[1..k -> GevNames] : k \in 0..MaxFallbacks}

GevInit ==
    /\ env \in GevEnvironments
    /\ pc = "start"
    /\ ctorCalls = <<>>
    /\ initResult = NotReturned
    /\ routes = {}
    /\ IdleHttp
    /\ IdleGev

GetEnvVarCall ==
    /\ \E varName \in GevNames, fallbackVarNames \in FallbackLists :
         /\ gevCall' = [varName |-> varName,
                        fallbackVarNames |-> fallbackVarNames]
         /\ gevResult' = getEnvVar(env, varName, fallbackVarNames)
    /\ UNCHANGED <<env, startVars, httpVars>>

GevNext == GetEnvVarCall

GevSpec == GevInit /\ [][GevNext]_vars

----------------------------------------------------------------------------
(* Properties *)

RepositoryOps ==
    {"InsertOrders", "GetPendingOrders", "GetOrdersByStatus", "GetOrder",
     "UpdateOrder"}

\* the repository calls among the calls made for the request
RepositoryCalls == SelectSeq(calls, LAMBDA c : c.op \in RepositoryOps)

ValidStatuses == 0..2

\* an optional sign, then digits only and at least one
Numeric(s) ==
    /\ s # <<>>
    /\ LET b == IF s[1] \in {"-", "+"} THEN Tail(s) ELSE s
       IN  b # <<>> /\ \A i \in 1..Len(b) : b[i] \in Digits

\* the canonical decimal form: digits only, no sign, no leading zero
Canonical(s) ==
    /\ s # <<>>
    /\ \A i \in 1..Len(s) : s[i] \in Digits
    /\ Len(s) > 1 => s[1] # "0"

\* the request failed the validation its route does at the boundary
FailsValidation ==
    \/ /\ req.route = "GET /order"
       /\ \/ req.param = <<>>
          \/ ~Numeric(req.param)
          \/ Atoi(req.param).n \notin ValidStatuses
    \/ /\ req.route = "GET /order/:id"
       /\ ~Numeric(req.param)
    \/ /\ req.route = "PUT /order"
       /\ ~req.body.bindErr
       /\ ~Numeric(req.body.order.OrderID)

\* the request passed it
PassesValidation ==
    \/ /\ req.route = "GET /order"
       /\ Numeric(req.param)
       /\ Atoi(req.param).n \in ValidStatuses
    \/ /\ req.route = "GET /order/:id"
       /\ Numeric(req.param)
    \/ /\ req.route = "PUT /order"
       /\ ~req.body.bindErr
       /\ Numeric(req.body.order.OrderID)
    \/ req.route = "GET /order/fetch"

\* C1: no repository operation is invoked with a Status outside {0,1,2}:
\* the status given to GetOrdersByStatus and the Status of every order given
\* to UpdateOrder or InsertOrders is one of 0, 1, 2.
StatusInRangeAtRepository ==
    \A i \in 1..Len(calls) :
        /\ calls[i].op = "GetOrdersByStatus"
             => calls[i].status \in ValidStatuses
        /\ calls[i].op \in {"UpdateOrder", "InsertOrders"}
             => \A j \in 1..Len(calls[i].orders) :
                    calls[i].orders[j].Status \in ValidStatuses

\* C2: every OrderID a handler passes to the repository (GetOrder's id, the
\* OrderID of UpdateOrder's order and of every order of InsertOrders) is the
\* canonical decimal form, and denotes the integer the request's id denoted.
OrderIdCanonicalAtRepository ==
    \A i \in 1..Len(calls) :
        /\ calls[i].op = "GetOrder"
             => /\ Canonical(calls[i].id)
                /\ Atoi(calls[i].id).n = Atoi(req.param).n
        /\ calls[i].op = "UpdateOrder"
             => /\ Canonical(calls[i].orders[1].OrderID)
                /\ Atoi(calls[i].orders[1].OrderID).n
                       = Atoi(req.body.order.OrderID).n
        /\ calls[i].op = "InsertOrders"
             => \A j \in 1..Len(calls[i].orders) :
                    Canonical(calls[i].orders[j].OrderID)

\* C3: when GetOrder or UpdateOrder finds no order with the id, the response
\* is not the generic server error that a backend I/O error is answered with.
NotFoundDistinguished ==
    \A i \in 1..Len(calls) :
        (calls[i].op \in {"GetOrder", "UpdateOrder"}
            /\ calls[i].result = "notfound")
          => resp.status # StatusInternalServerError

\* neither the endpoint variable nor its fallback gives the store URI
UriMissing(e) ==
    e["AZURE_COSMOS_RESOURCEENDPOINT"] = "" /\ e["ORDER_DB_URI"] = ""

\* a value the selected API type requires is unset or empty
RequiredMissing(e) ==
    \/ UriMissing(e)
    \/ e["ORDER_DB_NAME"] = ""
    \/ IF e["ORDER_DB_API"] = "cosmosdbsql"
       THEN \/ e["ORDER_DB_CONTAINER_NAME"] = ""
            \/ e["ORDER_DB_PARTITION_KEY"] = ""
            \/ e["ORDER_DB_PARTITION_VALUE"] = ""
       ELSE e["ORDER_DB_COLLECTION_NAME"] = ""

\* C4: with a required value missing, initDatabase ends the process before
\* any constructor is invoked and before any OrderService is returned.
MissingConfigExitsBeforeConstruct ==
    (pc # "start" /\ RequiredMissing(env))
      => /\ pc = "exited"
         /\ ctorCalls = <<>>
         /\ ~initResult.returned
         /\ initResult.svc.nil
         /\ routes = {}

\* C4 happens: the partitioned API type, only the partition key missing
MissingPartitionKeyExited ==
    /\ pc = "exited"
    /\ env["ORDER_DB_API"] = "cosmosdbsql"
    /\ env["ORDER_DB_PARTITION_KEY"] = ""
    /\ ~UriMissing(env)
    /\ env["ORDER_DB_NAME"] # ""
    /\ env["ORDER_DB_CONTAINER_NAME"] # ""
    /\ env["ORDER_DB_PARTITION_VALUE"] # ""

\* the constructor the API type and the auth flag select
SelectedConstructor(e) ==
    IF e["ORDER_DB_API"] = "cosmosdbsql"
    THEN IF e["USE_WORKLOAD_IDENTITY_AUTH"] = "true"
         THEN "NewCosmosDBOrderRepoWithManagedIdentity"
         ELSE "NewCosmosDBOrderRepo"
    ELSE "NewMongoDBOrderRepo"

\* C5: with the required configuration present, initDatabase invokes exactly
\* one constructor, selected by the API type and the auth flag alone, and the
\* workload-identity constructor is given no password, set or not.
ConstructorSelection ==
    (pc # "start" /\ ~RequiredMissing(env))
      => /\ Len(ctorCalls) = 1
         /\ ctorCalls[1].ctor = SelectedConstructor(env)
         /\ ctorCalls[1].ctor = "NewCosmosDBOrderRepoWithManagedIdentity"
              => \A i \in 1..Len(ctorCalls[1].args) :
                     ctorCalls[1].args[i] # "ORDER_DB_PASSWORD"

\* C5 happens: workload identity selected with no password set
WorkloadIdentityWithoutPassword ==
    /\ pc = "inited"
    /\ Len(ctorCalls) = 1
    /\ ctorCalls[1].ctor = "NewCosmosDBOrderRepoWithManagedIdentity"
    /\ env["ORDER_DB_PASSWORD"] = ""

\* after a constructor error nothing is served, and what is served was
\* initialized without error
NoDegradedStartup ==
    /\ (initResult.returned /\ initResult.err)
         => /\ initResult.svc.nil
            /\ routes = {}
            /\ pc \in {"inited", "exited"}
    /\ (pc = "serving" \/ routes # {})
         => /\ initResult.returned
            /\ ~initResult.err
            /\ ~initResult.svc.nil

\* C6: if the constructor returns an error, initDatabase returns it with no
\* OrderService, main's next step ends the process, and no route is ever
\* registered; the router serves only after a non-nil OrderService and a nil
\* error.
ConstructorErrorAbortsStartup ==
    /\ []NoDegradedStartup
    /\ [][(pc = "inited" /\ initResult.err) => pc' = "exited"]_vars

\* C6 happens: the process ended on a constructor error
ExitedOnConstructorError ==
    /\ pc = "exited"
    /\ initResult.returned
    /\ initResult.err
    /\ Len(ctorCalls) = 1

\* C7 as stated: every handler makes exactly one repository call for a
\* request that passes validation.
OneRepositoryCallPerRequest ==
    PassesValidation => Len(RepositoryCalls) = 1

\* C7, amended: listOrdersByStatus, getOrder and updateOrder make exactly one
\* repository call for a request that passes validation; fetchOrders makes
\* none when the queue read fails, InsertOrders alone when that fails, and
\* otherwise two calls, InsertOrders then GetPendingOrders.
RepositoryCallsPerRequest ==
    /\ (PassesValidation /\ req.route # "GET /order/fetch")
         => Len(RepositoryCalls) = 1
    /\ req.route = "GET /order/fetch"
         => LET rc == RepositoryCalls
            IN  IF calls[1].result # "ok" THEN rc = <<>>
                ELSE /\ Len(rc) >= 1
                     /\ rc[1].op = "InsertOrders"
                     /\ IF rc[1].result # "ok" THEN Len(rc) = 1
                        ELSE Len(rc) = 2 /\ rc[2].op = "GetPendingOrders"

\* C7 happens: a fetch that made both repository calls and succeeded
FetchMadeTwoRepositoryCalls ==
    /\ req.route = "GET /order/fetch"
    /\ Len(RepositoryCalls) = 2
    /\ resp.status = StatusOK

FetchOrdersSequence ==
    req.route = "GET /order/fetch"
      => /\ Len(calls) >= 1
         /\ calls[1].op = "getOrdersFromQueue"
         /\ IF calls[1].result # "ok"
            THEN Len(calls) = 1 /\ resp.status = StatusInternalServerError
            ELSE /\ Len(calls) >= 2
                 /\ calls[2].op = "InsertOrders"
                 /\ calls[2].orders = calls[1].orders
                 /\ IF calls[2].result # "ok"
                    THEN /\ Len(calls) = 2
                         /\ resp.status = StatusInternalServerError
                    ELSE /\ Len(calls) = 3
                         /\ calls[3].op = "GetPendingOrders"
                         /\ \A j \in 1..Len(calls[2].orders) :
                                GetOrder(store, calls[2].orders[j].OrderID)
                                    # {}
                         /\ IF calls[3].result # "ok"
                            THEN resp.status = StatusInternalServerError
                            ELSE /\ resp.status = StatusOK
                                 /\ resp.body = GetPendingOrders(store)
         /\ resp.status \in {StatusOK, StatusInternalServerError}

\* C9 happens: orders were inserted, then reading the pending orders failed
FetchFailedAfterInsert ==
    /\ req.route = "GET /order/fetch"
    /\ Len(calls) = 3
    /\ calls[2].orders # <<>>
    /\ calls[3].result = "ioerror"
    /\ resp.status = StatusInternalServerError
    /\ store # {}

\* C10: getEnvVar returns the primary value when it is not empty, otherwise
\* the value of a non-empty fallback whenever one of the fallbacks is not
\* empty; it exits only when the primary and all fallbacks are empty, and it
\* never returns the empty string.
GetEnvVarUsesAnyFallback ==
    gevCall # NoGev
      => LET primary == env[gevCall.varName]
             fb == gevCall.fallbackVarNames
             set == {i \in 1..Len(fb) : env[fb[i]] # ""}
         IN  /\ primary # ""
                  => gevResult = [exit |-> FALSE, value |-> primary]
             /\ (primary = "" /\ set # {})
                  => /\ ~gevResult.exit
                     /\ \E i \in set : gevResult.value = env[fb[i]]
             /\ gevResult.exit => (primary = "" /\ set = {})
             /\ ~gevResult.exit => gevResult.value # ""

====
